---- MODULE Spec2Model ----
(***************************************************************************)
(* Model of main.py of shackleton-scraper: the walk generator that follows *)
(* the webcam archive's navigation links, and the main driver that         *)
(* downloads the image of every pair the walk yields.                      *)
(*                                                                         *)
(* The web server is the environment: every requests.get is answered with  *)
(* a response drawn from a bounded set.  The generator and the driver are  *)
(* one thread of control, so one program counter pc follows both.          *)
(***************************************************************************)
EXTENDS Integers, Sequences, FiniteSets, TLC

VARIABLES
    pc,          \* the line of main.py control stands at
    url,         \* walk's _url
    response,    \* get_html's response, <<>> before the first one arrives
    html,        \* walk's html (the parsed page), <<>> before the first fetch
    dt,          \* walk's dt, <<>> before the first page is dated
    img,         \* walk's img, <<>> before the first image is found
    seen_dates,  \* walk's seen_dates
    yielded,     \* the pairs the generator has yielded so far, in order
    image_response, \* download_image's response, <<>> before the first one
    files,       \* the file system: path |-> content
    inflight,    \* the HTTP requests sent and not yet answered
    fetched,     \* number of page responses received by get_html
    downloads,   \* number of download_image calls that have returned
    caught,      \* the ValueError walk caught (its traceback is printed), or NoExc
    exc          \* the exception that escaped main, or NoExc

vars == <<pc, url, response, html, dt, img, seen_dates, yielded,
          image_response, files, inflight, fetched, downloads, caught, exc>>

----------------------------------------------------------------------------
(* Bounds of the model. *)

\* The server answers at most MaxPages requests with a page whose heading
\* is a date; every later answer is the exhausted page, a failure or a page
\* that cannot be dated.
MaxPages == 3

\* A page holds at most MaxAnchors clock-time anchors.
MaxAnchors == 2

----------------------------------------------------------------------------
(* Constants of main.py. *)

BASE_URL == "https://legacy.bas.ac.uk/webcams/archive/cam.php"

\* '{}{}'.format(BASE_URL, link): the pair of the two strings joined.
Format(base, link) == <<base, link>>

\* An href is the pair of its text before the position number and that number.
Href(position) == <<"?cam=1&position=", position>>

START_URL == Format(BASE_URL, Href(7))

ERROR_MSG == "We are currently only displaying a 30 day archive."

\* The text of an anchor is tokenised: a text of the shape dd:dd:dd is the
\* triple of its three two-digit numbers, any other text is a one-element
\* tuple holding the literal string.  TIME_RE accepts exactly the triples.
TIME_RE(text) == Len(text) = 3

----------------------------------------------------------------------------
(* Exceptions and results of calls that may raise. *)

NoExc == [type |-> "", msg |-> ""]

Exc(type, msg) == [type |-> type, msg |-> msg]

Ok(v) == [exc |-> NoExc, val |-> v]

Raise(e) == [exc |-> e, val |-> <<>>]

InvalidPage == Exc("ValueError", "Not a valid html page")

BadFormat == Exc("ValueError", "time data does not match format")

BadClock == Exc("ValueError", "hour must be in 0..23 or minute in 0..59")

HTTPError == Exc("HTTPError", "raise_for_status")

----------------------------------------------------------------------------
(* Dates: datetime, strptime, replace, isoformat. *)

\* %B under the en_US locale main.py sets.
MonthNumber ==
    [m \in {"January", "February", "March", "April", "May", "June", "July",
            "August", "September", "October", "November", "December"} |->
        CASE m = "January" -> 1 [] m = "February" -> 2 [] m = "March" -> 3
          [] m = "April" -> 4 [] m = "May" -> 5 [] m = "June" -> 6
          [] m = "July" -> 7 [] m = "August" -> 8 [] m = "September" -> 9
          [] m = "October" -> 10 [] m = "November" -> 11 [] m = "December" -> 12]

IsLeap(y) == (y % 4 = 0 /\ y % 100 # 0) \/ y % 400 = 0

DaysInMonth(y, m) ==
    IF m = 2 THEN (IF IsLeap(y) THEN 29 ELSE 28)
    ELSE IF m \in {4, 6, 9, 11} THEN 30 ELSE 31

\* datetime(year, month, day, hour, minute): second is 0.
datetime(y, mo, d, h, mi) ==
    [year |-> y, month |-> mo, day |-> d, hour |-> h, minute |-> mi, second |-> 0]

\* Mutant of parse_datetime: the format reads the clock as %M:%H.
parse_datetime_Swapped(s) ==
    IF /\ Len(s) = 5
       /\ s[1] \in DOMAIN MonthNumber
       /\ s[3] \in 1..9999
       /\ s[2] \in 1..DaysInMonth(s[3], MonthNumber[s[1]])
       /\ s[5] \in 0..23
       /\ s[4] \in 0..59
    THEN Ok(datetime(s[3], MonthNumber[s[1]], s[2], s[5], s[4]))
    ELSE Raise(BadFormat)

\* A heading text of the shape "<Month> <Day>, <Year> at <HH>:<MM>" is
\* tokenised as <<Month, Day, Year, HH, MM>>; any other heading text is a
\* one-element tuple holding the literal string.
\* datetime.strptime(s, '%B %d, %Y at %H:%M'): ValueError unless every field
\* is in range.
parse_datetime(s) ==
    IF /\ Len(s) = 5
       /\ s[1] \in DOMAIN MonthNumber
       /\ s[3] \in 1..9999
       /\ s[2] \in 1..DaysInMonth(s[3], MonthNumber[s[1]])
       /\ s[4] \in 0..23
       /\ s[5] \in 0..59
    THEN Ok(datetime(s[3], MonthNumber[s[1]], s[2], s[4], s[5]))
    ELSE Raise(BadFormat)

\* Mutant of adjust_date: the seconds of the label are kept too
\* (dt.replace(hour=int(hh), minute=int(mm), second=int(ss))).
adjust_date_WithSeconds(d, new_time) ==
    LET hh == new_time[1]
        mm == new_time[2]
        ss == new_time[3]
    IN  IF hh \in 0..23 /\ mm \in 0..59 /\ ss \in 0..59
        THEN Ok([d EXCEPT !.hour = hh, !.minute = mm, !.second = ss])
        ELSE Raise(BadClock)

\* hh, mm, ss = new_time.split(':'); dt.replace(hour=int(hh), minute=int(mm)):
\* ValueError when the hour or the minute is out of range; ss is not used.
adjust_date(d, new_time) ==
    LET hh == new_time[1]
        mm == new_time[2]
    IN  IF hh \in 0..23 /\ mm \in 0..59
        THEN Ok([d EXCEPT !.hour = hh, !.minute = mm])
        ELSE Raise(BadClock)

\* Mutant of isoformat: the date alone, as dt.date().isoformat() gives.
isoformat_DateOnly(d) == <<d.year, d.month, d.day>>

\* dt.isoformat(): YYYY-MM-DDTHH:MM:SS, as the tuple of its six numbers.
isoformat(d) == <<d.year, d.month, d.day, d.hour, d.minute, d.second>>

\* os.path.join(output_dir, '{}.jpg'.format(dt.isoformat()))
OutputDir == "output_dir"

FilePath(d) == <<OutputDir, isoformat(d), ".jpg">>

----------------------------------------------------------------------------
(* Pages: what the fetcher and the extractors read. *)

\* Mutant of check_valid: the marker is never looked for.
check_valid_NoTest(text) == TRUE

\* ERROR_MSG not in html
check_valid(text) == ERROR_MSG \notin text.phrases

\* BeautifulSoup(response.text, 'html.parser'): the elements the program
\* queries.
BeautifulSoup(text) == [container |-> text.container, anchors |-> text.anchors]

\* Mutant of get_html: the marker test comes before raise_for_status.
get_html_MarkerFirst(resp) ==
    IF ~check_valid(resp.text) THEN Raise(InvalidPage)
    ELSE IF resp.status >= 400 THEN Raise(HTTPError)
    ELSE Ok(BeautifulSoup(resp.text))

\* get_html after requests.get returned response: raise_for_status, then
\* the marker test.
get_html(resp) ==
    IF resp.status >= 400 THEN Raise(HTTPError)
    ELSE IF check_valid(resp.text) THEN Ok(BeautifulSoup(resp.text))
    ELSE Raise(InvalidPage)

\* soup.find_all(class webcam_image)[0].find('img').attrs['src']
get_image(soup) ==
    IF soup.container = <<>> THEN Raise(Exc("IndexError", "webcam_image"))
    ELSE IF soup.container[1].img = <<>> THEN Raise(Exc("AttributeError", "img"))
    ELSE IF "src" \notin DOMAIN soup.container[1].img[1]
         THEN Raise(Exc("KeyError", "src"))
    ELSE Ok(soup.container[1].img[1]["src"])

\* soup.find(class webcam_image).find('h2'); parse_datetime(title.text)
get_datetime(soup) ==
    IF soup.container = <<>> THEN Raise(Exc("AttributeError", "webcam_image"))
    ELSE IF soup.container[1].h2 = <<>> THEN Raise(Exc("AttributeError", "h2"))
    ELSE parse_datetime(soup.container[1].h2[1])

\* The anchors whose text TIME_RE accepts, in page order.
TimeAnchors(soup) == SelectSeq(soup.anchors, LAMBDA a : TIME_RE(a.text))

\* The dict {link.text: link.attrs['href'] ...} as the sequence of its items:
\* a key stands where its text first occurs and holds the href of the last
\* anchor with that text.
DictItems(as) ==
    LET first == {i \in 1..Len(as) : \A j \in 1..(i - 1) : as[j].text # as[i].text}
        last(i) == CHOOSE j \in i..Len(as) :
                      /\ as[j].text = as[i].text
                      /\ \A k \in (j + 1)..Len(as) : as[k].text # as[i].text
        item(i) == <<as[i].text, as[last(i)].attrs["href"]>>
        RECURSIVE upto(_)
        upto(n) == IF n = 0 THEN <<>>
                   ELSE IF n \in first THEN Append(upto(n - 1), item(n))
                   ELSE upto(n - 1)
    IN  upto(Len(as))

get_time_links(soup) ==
    IF \E i \in 1..Len(TimeAnchors(soup)) :
           "href" \notin DOMAIN TimeAnchors(soup)[i].attrs
    THEN Raise(Exc("KeyError", "href"))
    ELSE Ok(DictItems(TimeAnchors(soup)))

\* [link.attrs['href'] for link in soup.find_all('a')
\*  if link.text == 'Previous Day'][0]
get_prev_link(soup) ==
    LET prev == SelectSeq(soup.anchors, LAMBDA a : a.text = <<"Previous Day">>)
    IN  IF \E i \in 1..Len(prev) : "href" \notin DOMAIN prev[i].attrs
        THEN Raise(Exc("KeyError", "href"))
        ELSE IF prev = <<>> THEN Raise(Exc("IndexError", "Previous Day"))
        ELSE Ok(prev[1].attrs["href"])

\* Mutant of the loop of get_next_time: the membership test inverted (the
\* first item whose adjusted date is in seen).
RECURSIVE NextTimeFrom_Inverted(_, _, _, _)
NextTimeFrom_Inverted(d, seen, items, i) ==
    IF i > Len(items) THEN Ok(<<>>)
    ELSE LET adjusted_date == adjust_date(d, items[i][1])
         IN  IF adjusted_date.exc # NoExc THEN Raise(adjusted_date.exc)
             ELSE IF \E k \in 1..Len(seen) : seen[k] = adjusted_date.val
                  THEN Ok(Format(BASE_URL, items[i][2]))
             ELSE NextTimeFrom_Inverted(d, seen, items, i + 1)

\* The for loop of get_next_time over the items from the i-th on: the URL of
\* the first item whose adjusted date is not in seen, None when there is no
\* such item, ValueError when an item before it cannot be adjusted.
None == <<>>

RECURSIVE NextTimeFrom(_, _, _, _)
NextTimeFrom(d, seen, items, i) ==
    IF i > Len(items) THEN Ok(None)
    ELSE LET adjusted_date == adjust_date(d, items[i][1])
         IN  IF adjusted_date.exc # NoExc THEN Raise(adjusted_date.exc)
             ELSE IF \A k \in 1..Len(seen) : seen[k] # adjusted_date.val
                  THEN Ok(Format(BASE_URL, items[i][2]))
             ELSE NextTimeFrom(d, seen, items, i + 1)

get_next_time(d, seen, soup) ==
    LET links == get_time_links(soup)
    IN  IF links.exc # NoExc THEN Raise(links.exc)
        ELSE NextTimeFrom(d, seen, links.val, 1)

\* Mutant of lines 88-89: with no unseen time link the walk goes back to
\* the start URL.
NextUrl_Restart(d, seen, soup) ==
    LET next == get_next_time(d, seen, soup)
    IN  IF next.exc # NoExc THEN Raise(next.exc)
        ELSE IF next.val # None THEN Ok(next.val)
        ELSE Ok(START_URL)

\* Lines 87-89 of walk: the next _url.
NextUrl(d, seen, soup) ==
    LET next == get_next_time(d, seen, soup)
    IN  IF next.exc # NoExc THEN Raise(next.exc)
        ELSE IF next.val # None THEN Ok(next.val)
        ELSE LET prev == get_prev_link(soup)
             IN  IF prev.exc # NoExc THEN Raise(prev.exc)
                 ELSE Ok(Format(BASE_URL, prev.val))

----------------------------------------------------------------------------
(* The environment: what the server may answer. *)

Img1 == "https://legacy.bas.ac.uk/webcams/img1.jpg"

Img2 == "https://legacy.bas.ac.uk/webcams/img2.jpg"

\* The snapshots the archive shows: heading text and image source.
Snapshots ==
    { << <<"December", 12, 2017, 23, 3>>, Img1 >>,
      << <<"December", 12, 2017, 23, 3>>, Img2 >>,
      << <<"December", 12, 2017, 8, 3>>, Img1 >>,
      << <<"January", 1, 2017, 8, 3>>, Img2 >> }

\* Heading texts strptime rejects.
BadTitles == { <<"December", 12, 2017, 24, 3>>, <<"Webcam offline">> }

\* Anchor texts TIME_RE accepts.
Labels == { <<23, 3, 0>>, <<23, 3, 30>>, <<8, 3, 0>> }

Anchor(text, href) == [text |-> text, attrs |-> ("href" :> href)]

\* The Previous Day anchor of a page.
PrevAnchor == Anchor(<<"Previous Day">>, Href(0))

\* Up to MaxAnchors time anchors, the i-th with the href of position i,
\* followed or not by the Previous Day anchor.
LabelSeqs == UNION { [1..n -> Labels] : n \in 0..MaxAnchors }

TimeLinksOf(ls) == [i \in 1..Len(ls) |-> Anchor(ls[i], Href(i))]

\* Further anchor lists: a label that is no time of day (alone, and after a
\* label that is one), a label one minute past a heading's, an anchor that
\* is neither kind, two Previous Day anchors, and anchors without href.
OddAnchorLists ==
    { << Anchor(<<99, 3, 0>>, Href(1)), PrevAnchor >>,
      << Anchor(<<8, 4, 0>>, Href(1)), PrevAnchor >>,
      << Anchor(<<23, 3, 0>>, Href(1)), Anchor(<<8, 63, 0>>, Href(2)), PrevAnchor >>,
      << Anchor(<<"Next Day">>, Href(9)), PrevAnchor >>,
      << PrevAnchor, Anchor(<<"Previous Day">>, Href(8)) >>,
      << [text |-> <<8, 3, 0>>, attrs |-> ("name" :> "t")], PrevAnchor >>,
      << [text |-> <<"Previous Day">>, attrs |-> ("name" :> "p")] >> }

AnchorLists ==
    { TimeLinksOf(ls) : ls \in LabelSeqs }
    \cup { Append(TimeLinksOf(ls), PrevAnchor) : ls \in LabelSeqs }
    \cup OddAnchorLists

Container(title, image) == << [h2 |-> title, img |-> image] >>

Text(phrases, container, anchors) ==
    [phrases |-> phrases, container |-> container, anchors |-> anchors]

\* Pages with a heading that parses and an image.
SnapshotTexts ==
    { Text({}, Container(<<s[1]>>, << ("src" :> s[2]) >>), as) :
        s \in Snapshots, as \in AnchorLists }

\* Pages with a heading that parses and no usable image.
NoImageTexts ==
    { Text({}, Container(<< <<"December", 12, 2017, 8, 3>> >>, i), <<PrevAnchor>>) :
        i \in { <<>>, << ("alt" :> "webcam") >> } }

\* Pages with no heading that parses.
UndatedTexts ==
    { Text({}, <<>>, <<PrevAnchor>>),
      Text({}, Container(<<>>, << ("src" :> Img1) >>), <<PrevAnchor>>) }
    \cup { Text({}, Container(<<t>>, << ("src" :> Img1) >>), <<PrevAnchor>>) :
             t \in BadTitles }

\* Pages holding the archive-exhausted marker: the bare placeholder, and a
\* page that holds the marker beside a complete snapshot.
ExhaustedTexts ==
    { Text({ERROR_MSG}, <<>>, <<>>),
      Text({ERROR_MSG},
           Container(<< <<"December", 12, 2017, 8, 3>> >>, << ("src" :> Img1) >>),
           <<PrevAnchor>>) }

PageResponses ==
    { [status |-> 200, text |-> t] :
        t \in SnapshotTexts \cup NoImageTexts \cup UndatedTexts \cup ExhaustedTexts }
    \cup { [status |-> 404, text |-> Text({}, <<>>, <<>>)],
           [status |-> 404, text |-> Text({ERROR_MSG}, <<>>, <<>>)] }

\* The text holds no marker and every extractor succeeds on it, whatever
\* seen_dates holds: a heading that parses, an image source, time anchors
\* that are times of day with an href, and a Previous Day anchor.
WellFormedText(text) ==
    /\ check_valid(text)
    /\ get_datetime(BeautifulSoup(text)).exc = NoExc
    /\ get_image(BeautifulSoup(text)).exc = NoExc
    /\ get_prev_link(BeautifulSoup(text)).exc = NoExc
    /\ \A i \in 1..Len(text.anchors) :
          TIME_RE(text.anchors[i].text) =>
             /\ "href" \in DOMAIN text.anchors[i].attrs
             /\ text.anchors[i].text[1] \in 0..23
             /\ text.anchors[i].text[2] \in 0..59

\* The answers of an archive that is never exhausted: every page is well
\* formed, whatever URL is asked for, so that the links followed lead to
\* well-formed pages for ever (back to the same page included).
EndlessPageResponses ==
    { r \in PageResponses : r.status = 200 /\ WellFormedText(r.text) }

\* The answers of an archive whose pages are well formed until it is
\* exhausted.
UsablePageResponses ==
    { r \in PageResponses :
        r.status = 200 /\ (WellFormedText(r.text) \/ ~check_valid(r.text)) }

\* The response is a page get_html returns and get_datetime dates.
Dated(resp) ==
    /\ get_html(resp).exc = NoExc
    /\ get_datetime(get_html(resp).val).exc = NoExc

\* The image server is static during a run: the bytes of an image, and
\* the chunks iter_content yields for it (some of them empty).
ImageBody(src) == IF src = Img1 THEN <<1, 2>> ELSE <<3, 4, 5>>

ImageChunks(src) ==
    IF src = Img1 THEN << <<1, 2>> >> ELSE << <<3>>, <<>>, <<4, 5>> >>

\* The image responses: for every image URL the image, or a failure status.
ImageResponses ==
    { [url |-> src, status |-> 200, chunks |-> ImageChunks(src)] :
        src \in {Img1, Img2} }
    \cup { [url |-> src, status |-> 404, chunks |-> << <<0>> >>] :
             src \in {Img1, Img2} }

\* The answers of an image server that serves every image.
UsableImageResponses == { r \in ImageResponses : r.status = 200 }

\* What the with block of download_image leaves in the file: every chunk
\* that is not empty, written in order.
RECURSIVE Written(_)
Written(chunks) ==
    IF chunks = <<>> THEN <<>>
    ELSE IF Head(chunks) # <<>> THEN Head(chunks) \o Written(Tail(chunks))
    ELSE Written(Tail(chunks))

PageRequest(u) == [kind |-> "page", url |-> u]

ImageRequest(u) == [kind |-> "image", url |-> u]

\* Headings of the shape "<Month> <Day>, <Year> at <HH>:<MM>" over every
\* month name, the days around the ends of the months, a leap year and a
\* common year, and clock readings at both ends of their ranges; some name
\* no day of the calendar (February 30).
TitleDays == {1, 12, 28, 29, 30, 31}

TitleYears == {2016, 2017}

TitleHours == {0, 8, 23}

TitleMinutes == {0, 3, 59}

Titles ==
    { <<m, d, y, h, mi>> : m \in DOMAIN MonthNumber, d \in TitleDays,
                           y \in TitleYears, h \in TitleHours,
                           mi \in TitleMinutes }

\* One page for each of these headings, with an image and a Previous Day
\* anchor.
TitledResponses ==
    { [status |-> 200,
       text |-> Text({}, Container(<<t>>, << ("src" :> Img1) >>), <<PrevAnchor>>)] :
        t \in Titles }

----------------------------------------------------------------------------
(* The program. *)

Init ==
    /\ pc = "get_html"
    /\ url = START_URL
    /\ response = <<>>
    /\ html = <<>>
    /\ dt = <<>>
    /\ img = <<>>
    /\ seen_dates = <<>>
    /\ yielded = <<>>
    /\ image_response = <<>>
    /\ files = <<>>
    /\ inflight = {}
    /\ fetched = 0
    /\ downloads = 0
    /\ caught = NoExc
    /\ exc = NoExc

\* Mutants of the except clause: one that catches nothing, one that
\* catches every exception.
Catches_Nothing(e) == FALSE

Catches_Everything(e) == TRUE

\* Mutant of the except clause: it also catches the errors of a lookup that
\* finds nothing (except (ValueError, LookupError, AttributeError)).
Catches_Lookup(e) ==
    e.type \in {"ValueError", "IndexError", "KeyError", "AttributeError"}

\* except ValueError (line 90)
Catches(e) == e.type = "ValueError"

\* An exception raised inside the try block of walk: a ValueError prints
\* Done! and the traceback and ends the generator, so that the for loop of
\* main ends and main returns; any other exception leaves walk and main.
RaiseInWalk(e) ==
    IF Catches(e)
    THEN /\ caught' = e
         /\ pc' = "done"
         /\ exc' = exc
    ELSE /\ exc' = e
         /\ pc' = "aborted"
         /\ caught' = caught

\* An exception raised in the body of the for loop of main.
RaiseInMain(e) ==
    /\ exc' = e
    /\ pc' = "aborted"
    /\ caught' = caught

\* get_html, line 43: requests.get(url) is sent.
GetHtmlSend ==
    /\ pc = "get_html"
    /\ inflight' = inflight \cup {PageRequest(url)}
    /\ pc' = "get_html_wait"
    /\ UNCHANGED <<url, response, html, dt, img, seen_dates, yielded,
                   image_response, files, fetched, downloads, caught, exc>>

\* get_html, lines 43-48: the response arrives, one of responses.
GetHtmlRecvFrom(responses) ==
    /\ pc = "get_html_wait"
    /\ \E resp \in responses :
          /\ Dated(resp) => Len(seen_dates) < MaxPages
          /\ response' = resp
          /\ LET r == get_html(resp)
             IN  IF r.exc = NoExc
                 THEN /\ html' = r.val
                      /\ pc' = "get_datetime"
                      /\ UNCHANGED <<caught, exc>>
                 ELSE /\ RaiseInWalk(r.exc)
                      /\ html' = html
    /\ inflight' = inflight \ {PageRequest(url)}
    /\ fetched' = fetched + 1
    /\ UNCHANGED <<url, dt, img, seen_dates, yielded, image_response, files,
                   downloads>>

GetHtmlRecv == GetHtmlRecvFrom(PageResponses)

\* walk, line 83
GetDatetime ==
    /\ pc = "get_datetime"
    /\ LET r == get_datetime(html)
       IN  IF r.exc = NoExc
           THEN /\ dt' = r.val
                /\ pc' = "append"
                /\ UNCHANGED <<caught, exc>>
           ELSE /\ RaiseInWalk(r.exc)
                /\ dt' = dt
    /\ UNCHANGED <<url, response, html, img, seen_dates, yielded,
                   image_response, files, inflight, fetched, downloads>>

\* Mutant of line 84: the Timestamp is not recorded.
AppendSeen_Skipped ==
    /\ pc = "append"
    /\ pc' = "get_image"
    /\ UNCHANGED <<url, response, html, dt, img, seen_dates, yielded,
                   image_response, files, inflight, fetched, downloads,
                   caught, exc>>

\* Mutant of line 84: a visited test, which ends the walk on a Timestamp
\* that is already in seen_dates.
AppendSeen_Guarded ==
    /\ pc = "append"
    /\ IF \E k \in 1..Len(seen_dates) : seen_dates[k] = dt
       THEN /\ pc' = "done"
            /\ seen_dates' = seen_dates
       ELSE /\ pc' = "get_image"
            /\ seen_dates' = Append(seen_dates, dt)
    /\ UNCHANGED <<url, response, html, dt, img, yielded, image_response,
                   files, inflight, fetched, downloads, caught, exc>>

\* Mutant of line 84: the Timestamp is put at the front of seen_dates.
AppendSeen_Front ==
    /\ pc = "append"
    /\ seen_dates' = <<dt>> \o seen_dates
    /\ pc' = "get_image"
    /\ UNCHANGED <<url, response, html, dt, img, yielded, image_response,
                   files, inflight, fetched, downloads, caught, exc>>

\* walk, line 84
AppendSeen ==
    /\ pc = "append"
    /\ seen_dates' = Append(seen_dates, dt)
    /\ pc' = "get_image"
    /\ UNCHANGED <<url, response, html, dt, img, yielded, image_response,
                   files, inflight, fetched, downloads, caught, exc>>

\* walk, line 85
GetImage ==
    /\ pc = "get_image"
    /\ LET r == get_image(html)
       IN  IF r.exc = NoExc
           THEN /\ img' = r.val
                /\ pc' = "yield"
                /\ UNCHANGED <<caught, exc>>
           ELSE /\ RaiseInWalk(r.exc)
                /\ img' = img
    /\ UNCHANGED <<url, response, html, dt, seen_dates, yielded,
                   image_response, files, inflight, fetched, downloads>>

\* Mutant of the yield: walk runs on to choose the next url before main
\* has dealt with the pair.
AfterYield_Eager == "get_next_time"

\* Where control goes when walk yields: to the body of the for loop of main.
AfterYield == "download_image"

\* Mutant of line 86: the Timestamp yielded is the first of seen_dates, not
\* the page's own.
Yield_FirstSeen ==
    /\ pc = "yield"
    /\ yielded' = Append(yielded, <<seen_dates[1], img>>)
    /\ pc' = AfterYield
    /\ UNCHANGED <<url, response, html, dt, img, seen_dates, image_response,
                   files, inflight, fetched, downloads, caught, exc>>

\* walk, line 86: the generator hands the pair to main and is suspended.
Yield ==
    /\ pc = "yield"
    /\ yielded' = Append(yielded, <<dt, img>>)
    /\ pc' = AfterYield
    /\ UNCHANGED <<url, response, html, dt, img, seen_dates, image_response,
                   files, inflight, fetched, downloads, caught, exc>>

\* The pair the for loop of main holds.
Current == yielded[Len(yielded)]

\* main line 107 and download_image line 97: requests.get(img, stream=True)
\* is sent.
DownloadSend ==
    /\ pc = "download_image"
    /\ inflight' = inflight \cup {ImageRequest(Current[2])}
    /\ pc' = "download_wait"
    /\ UNCHANGED <<url, response, html, dt, img, seen_dates, yielded,
                   image_response, files, fetched, downloads, caught, exc>>

\* Mutant of download_image: the file is opened for writing before
\* raise_for_status is called, so that a failure status leaves an empty
\* file.
DownloadRecvFrom_OpenFirst(responses) ==
    /\ pc = "download_wait"
    /\ \E resp \in responses :
          /\ resp.url = Current[2]
          /\ image_response' = resp
          /\ IF resp.status >= 400
             THEN /\ RaiseInMain(HTTPError)
                  /\ files' = (FilePath(Current[1]) :> <<>>) @@ files
                  /\ downloads' = downloads
             ELSE /\ files' = (FilePath(Current[1]) :> Written(resp.chunks)) @@ files
                  /\ downloads' = downloads + 1
                  /\ pc' = "get_next_time"
                  /\ UNCHANGED <<caught, exc>>
    /\ inflight' = inflight \ {ImageRequest(Current[2])}
    /\ UNCHANGED <<url, response, html, dt, img, seen_dates, yielded, fetched>>

\* download_image lines 98-102 and main line 109: the response arrives; a
\* failure status raises before the file is opened, otherwise the file is
\* opened for writing, receives the chunks and control returns to walk.
DownloadRecvFrom(responses) ==
    /\ pc = "download_wait"
    /\ \E resp \in responses :
          /\ resp.url = Current[2]
          /\ image_response' = resp
          /\ IF resp.status >= 400
             THEN /\ RaiseInMain(HTTPError)
                  /\ UNCHANGED <<files, downloads>>
             ELSE /\ files' = (FilePath(Current[1]) :> Written(resp.chunks)) @@ files
                  /\ downloads' = downloads + 1
                  /\ pc' = "get_next_time"
                  /\ UNCHANGED <<caught, exc>>
    /\ inflight' = inflight \ {ImageRequest(Current[2])}
    /\ UNCHANGED <<url, response, html, dt, img, seen_dates, yielded, fetched>>

DownloadRecv == DownloadRecvFrom(ImageResponses)

\* walk, lines 87-89: the generator is resumed and chooses the next _url.
ChooseNext ==
    /\ pc = "get_next_time"
    /\ LET r == NextUrl(dt, seen_dates, html)
       IN  IF r.exc = NoExc
           THEN /\ url' = r.val
                /\ pc' = "get_html"
                /\ UNCHANGED <<caught, exc>>
           ELSE /\ RaiseInWalk(r.exc)
                /\ url' = url
    /\ UNCHANGED <<response, html, dt, img, seen_dates, yielded,
                   image_response, files, inflight, fetched, downloads>>

Next ==
    \/ GetHtmlSend
    \/ GetHtmlRecv
    \/ GetDatetime
    \/ AppendSeen
    \/ GetImage
    \/ Yield
    \/ DownloadSend
    \/ DownloadRecv
    \/ ChooseNext

Spec == Init /\ [][Next]_vars

\* The one thread of main.py runs as long as it can.
FairSpec == Spec /\ WF_vars(Next)

\* The program against an archive whose pages are well formed until it is
\* exhausted and whose images are served.
UsableGetHtmlRecv == GetHtmlRecvFrom(UsablePageResponses)

UsableDownloadRecv == DownloadRecvFrom(UsableImageResponses)

UsableNext ==
    \/ GetHtmlSend
    \/ UsableGetHtmlRecv
    \/ GetDatetime
    \/ AppendSeen
    \/ GetImage
    \/ Yield
    \/ DownloadSend
    \/ UsableDownloadRecv
    \/ ChooseNext

UsableSpec == Init /\ [][UsableNext]_vars /\ WF_vars(UsableNext)

\* The program against an archive that is never exhausted and whose
\* images are served.
EndlessGetHtmlRecv == GetHtmlRecvFrom(EndlessPageResponses)

EndlessNext ==
    \/ GetHtmlSend
    \/ EndlessGetHtmlRecv
    \/ GetDatetime
    \/ AppendSeen
    \/ GetImage
    \/ Yield
    \/ DownloadSend
    \/ UsableDownloadRecv
    \/ ChooseNext

EndlessSpec == Init /\ [][EndlessNext]_vars

\* The first iteration of the walk, up to the return of download_image,
\* on a start page whose heading is any of Titles.
TitledGetHtmlRecv == GetHtmlRecvFrom(TitledResponses)

FirstPageNext ==
    \/ GetHtmlSend
    \/ TitledGetHtmlRecv
    \/ GetDatetime
    \/ AppendSeen
    \/ GetImage
    \/ Yield
    \/ DownloadSend
    \/ DownloadRecv

ParseSpec == Init /\ [][FirstPageNext]_vars

----------------------------------------------------------------------------
(* Claims. *)

\* The Timestamps yielded so far, in order.
YieldedTimestamps == [i \in 1..Len(yielded) |-> yielded[i][1]]

Range(seq) == {seq[i] : i \in 1..Len(seq)}

\* C1: across one walk no Timestamp is yielded twice, whatever the archive
\* serves, the pages reached through the Previous Day link included.
C1_NoDuplicateYield ==
    \A i, j \in 1..Len(yielded) : i # j => yielded[i][1] # yielded[j][1]

\* The walk has ended through its except clause on the exhausted page, and
\* main has returned.
CleanEnd == pc = "done" /\ caught = InvalidPage /\ exc = NoExc

\* C2: when every page the walk follows is well formed until an exhausted
\* page arrives (and the images download), the walk ends, and it ends
\* through the detection of the exhausted page, not through an error.
\* Checked under UsableSpec, where the server gives only such answers.
C2_Termination == <>CleanEnd

\* C2 witness: a walk over MaxPages well-formed pages that ended on the
\* exhausted page.
C2_Witness == CleanEnd /\ Len(yielded) = MaxPages /\ downloads = MaxPages

\* The page response that arrived last holds the marker.
MarkerFetched ==
    fetched > 0 /\ response.status < 400 /\ ERROR_MSG \in response.text.phrases

\* C3: once a fetched page holds the archive-exhausted marker, get_html has
\* failed with the invalid-page error, walk has turned it into its clean
\* end and main has returned with no error; from the end on nothing is
\* fetched, yielded or written (no step leaves the ended program).
C3_SentinelHandling ==
    /\ [](MarkerFetched => CleanEnd /\ inflight = {})
    /\ [][pc # "done"]_vars

\* C3 witness: the marker arrived after a pair had been yielded, on a page
\* that shows a complete snapshot beside it.
C3_Witness ==
    /\ MarkerFetched
    /\ CleanEnd
    /\ Len(yielded) >= 1
    /\ response.text.container # <<>>

\* C4: a heading that strptime rejects never ends the walk cleanly: the
\* error leaves walk and aborts the run.
C4_ParseErrorFatal ==
    fetched > 0 /\ get_html(response).exc = NoExc
                /\ get_datetime(get_html(response).val).exc = BadFormat
                /\ pc # "get_datetime"
        => pc = "aborted" /\ exc = BadFormat /\ caught = NoExc

\* The page response that arrived last has a failure status.
TransportFailed == fetched > 0 /\ response.status >= 400

\* C5 as claimed: a failure status on a page fetch ends the walk through
\* the except clause, as the exhausted page does, and main returns.
C5_TransportLikeExhausted ==
    TransportFailed => pc = "done" /\ caught # NoExc /\ exc = NoExc

\* C5 as amended: a failure status on a page fetch is not caught by walk:
\* HTTPError leaves walk and main, nothing is printed by the except
\* clause, and from the abort on nothing is fetched, yielded or written.
C5_TransportEscapes ==
    /\ [](TransportFailed =>
            pc = "aborted" /\ exc = HTTPError /\ caught = NoExc /\ inflight = {})
    /\ [][pc # "aborted"]_vars

\* C5 witness: the failure status arrived on the third fetch.
C5_Witness ==
    TransportFailed /\ pc = "aborted" /\ exc = HTTPError /\ Len(yielded) = 2

\* The candidate Timestamp of a time anchor of the page dated d.
Candidate(d, a) == [d EXCEPT !.hour = a.text[1], !.minute = a.text[2]]

\* No time anchor of the page has a candidate outside seen.
AllCandidatesSeen(d, seen, soup) ==
    \A i \in 1..Len(TimeAnchors(soup)) :
        Candidate(d, TimeAnchors(soup)[i]) \in Range(seen)

\* The Previous Day anchors of the page.
PrevAnchors(soup) == SelectSeq(soup.anchors, LAMBDA a : a.text = <<"Previous Day">>)

\* walk has just chosen url from the page html dated dt.
Decided == pc = "get_html" /\ fetched > 0

\* C6: the url chosen is BASE_URL joined with the Previous Day href when the
\* page has no time anchor or all their candidates are in seen_dates, and
\* only then.
C6_Fallback ==
    Decided =>
        /\ AllCandidatesSeen(dt, seen_dates, html) =>
              /\ PrevAnchors(html) # <<>>
              /\ url = <<BASE_URL, PrevAnchors(html)[1].attrs["href"]>>
        /\ \A i \in 1..Len(PrevAnchors(html)) :
              url = <<BASE_URL, PrevAnchors(html)[i].attrs["href"]>>
                 => AllCandidatesSeen(dt, seen_dates, html)

\* C6 witness: a page with MaxAnchors time anchors, all of them seen, left
\* through its Previous Day anchor.
C6_Witness ==
    /\ Decided
    /\ Len(TimeAnchors(html)) = MaxAnchors
    /\ AllCandidatesSeen(dt, seen_dates, html)
    /\ url = <<BASE_URL, Href(0)>>

\* C7: the url chosen on a page with an unseen candidate is BASE_URL joined
\* with the href of the first anchor, in page order, whose candidate is not
\* in seen_dates, repeated labels included.
C7_FirstUnseenAnchor ==
    Decided =>
        \A i \in 1..Len(TimeAnchors(html)) :
            /\ Candidate(dt, TimeAnchors(html)[i]) \notin Range(seen_dates)
            /\ \A j \in 1..(i - 1) :
                  Candidate(dt, TimeAnchors(html)[j]) \in Range(seen_dates)
            => url = <<BASE_URL, TimeAnchors(html)[i].attrs["href"]>>

\* C8: a Timestamp is in seen_dates before it is yielded and before the next
\* url is chosen: the yielded Timestamps are a prefix of seen_dates, which
\* holds the page's own Timestamp when it is yielded, and all of them when
\* the next url is chosen.
C8_RecordYieldDecide ==
    /\ Len(yielded) <= Len(seen_dates)
    /\ \A i \in 1..Len(yielded) : seen_dates[i] = yielded[i][1]
    /\ pc = "yield" =>
          Len(seen_dates) = Len(yielded) + 1 /\ seen_dates[Len(seen_dates)] = dt
    /\ pc = "get_next_time" =>
          /\ Len(seen_dates) = Len(yielded)
          /\ Range(YieldedTimestamps) \subseteq Range(seen_dates)
          /\ seen_dates[Len(seen_dates)] = dt
          /\ yielded[Len(yielded)][1] = dt

\* C8 witness: the next url is about to be chosen on the second page.
C8_Witness == pc = "get_next_time" /\ Len(yielded) = 2

\* C9: the image of the k-th pair is requested after the pair was yielded
\* and its download has returned before the next page is requested; at
\* most one request is in flight.
C9_PullBased ==
    /\ Cardinality(inflight) <= 1
    /\ \A r \in inflight :
          /\ r.kind = "image" =>
                /\ Len(yielded) = downloads + 1
                /\ r.url = yielded[Len(yielded)][2]
          /\ r.kind = "page" => downloads = Len(yielded)
    /\ fetched <= downloads + 1
    /\ downloads <= Len(yielded)

\* C9 witness: the third page is requested, two images are on disk.
C9_Witness ==
    /\ PageRequest(url) \in inflight
    /\ Len(yielded) = 2
    /\ downloads = 2

\* The path main writes the image of Timestamp d to.
JpgOf(d) ==
    <<OutputDir, <<d.year, d.month, d.day, d.hour, d.minute, 0>>, ".jpg">>

\* The last of the first n pairs with the Timestamp of the k-th.
LastWith(k, n) ==
    CHOOSE j \in k..n :
        /\ yielded[j][1] = yielded[k][1]
        /\ \A l \in (j + 1)..n : yielded[l][1] # yielded[k][1]

\* C10: for every pair whose download returned, the file named by the ISO
\* form of its Timestamp holds the bytes of its image (of the last such
\* pair when a Timestamp came twice), and there is no other file.
C10_DriverOutput ==
    /\ \A k \in 1..downloads :
          /\ JpgOf(yielded[k][1]) \in DOMAIN files
          /\ files[JpgOf(yielded[k][1])] = ImageBody(yielded[LastWith(k, downloads)][2])
    /\ DOMAIN files = {JpgOf(yielded[k][1]) : k \in 1..downloads}

\* C10 witness: two files written, then one of them overwritten with
\* another image.
C10_Witness ==
    /\ downloads = 3
    /\ yielded[1][1] # yielded[2][1]
    /\ yielded[3][1] = yielded[1][1]
    /\ yielded[3][2] # yielded[1][2]

\* The page html shows no image container, or a container without heading.
NoHeading(soup) ==
    soup.container = <<>> \/ soup.container[1].h2 = <<>>

\* The page html shows a container with a heading and no img element.
NoImg(soup) ==
    soup.container # <<>> /\ soup.container[1].img = <<>>

\* C11: on a valid page without image container or heading the timestamp
\* step, on one without img element the image step, and on one without
\* Previous Day anchor the fallback step, fail with an error that is no
\* ValueError: the except clause of walk does not run, the error leaves
\* walk and main, no pair is yielded by the failing step, and from the
\* abort on nothing is fetched, yielded or written.
C11_MissingElementFatal ==
    /\ [][pc = "get_datetime" /\ NoHeading(html)
            => /\ pc' = "aborted"
               /\ exc'.type = "AttributeError"
               /\ caught' = NoExc
               /\ yielded' = yielded]_vars
    /\ [][pc = "get_image" /\ NoImg(html)
            => /\ pc' = "aborted"
               /\ exc'.type = "AttributeError"
               /\ caught' = NoExc
               /\ yielded' = yielded]_vars
    /\ [][(pc = "get_next_time" /\ AllCandidatesSeen(dt, seen_dates, html)
                                   /\ PrevAnchors(html) = <<>>)
            => /\ pc' = "aborted"
               /\ exc'.type = "IndexError"
               /\ caught' = NoExc
               /\ url' = url]_vars
    /\ [](pc = "aborted" => inflight = {})
    /\ [][pc # "aborted"]_vars

\* C11 witness: the second page has a time anchor whose candidate is seen
\* and no Previous Day anchor; the fallback failed after its pair had been
\* yielded and its image downloaded.
C11_Witness ==
    /\ pc = "aborted"
    /\ exc.type = "IndexError"
    /\ caught = NoExc
    /\ Len(yielded) = 2
    /\ downloads = 2
    /\ Len(TimeAnchors(html)) >= 1
    /\ PrevAnchors(html) = <<>>

\* The month names in calendar order.
Months ==
    << "January", "February", "March", "April", "May", "June", "July",
       "August", "September", "October", "November", "December" >>

MonthIndex(name) == CHOOSE i \in 1..12 : Months[i] = name

\* The number of the last day of month i of year y.
LastDay(y, i) ==
    CASE i = 2 -> IF y % 4 = 0 /\ (y % 100 # 0 \/ y % 400 = 0) THEN 29 ELSE 28
      [] i \in {4, 6, 9, 11} -> 30
      [] OTHER -> 31

\* The heading text names a minute of the calendar.
ValidTitle(s) ==
    /\ Len(s) = 5
    /\ \E i \in 1..12 : Months[i] = s[1]
    /\ s[2] \in 1..LastDay(s[3], MonthIndex(s[1]))
    /\ s[4] \in 0..23
    /\ s[5] \in 0..59

\* The Timestamp an ISO-8601 text YYYY-MM-DDTHH:MM:SS reads as.
fromisoformat(iso) ==
    [year |-> iso[1], month |-> iso[2], day |-> iso[3],
     hour |-> iso[4], minute |-> iso[5], second |-> iso[6]]

\* The heading text of the page fetched last.
Heading == response.text.container[1].h2[1]

C13_NoCeiling ==
    /\ pc \notin {"done", "aborted"}
    /\ exc = NoExc /\ caught = NoExc
    /\ pc = "get_datetime" => get_datetime(html).exc = NoExc
    /\ pc = "get_image" => get_image(html).exc = NoExc
    /\ pc = "get_next_time" => NextUrl(dt, seen_dates, html).exc = NoExc
    /\ pc = "download_wait" =>
          \E resp \in UsableImageResponses : resp.url = Current[2]
    /\ pc = "get_html_wait" =>
          /\ Len(yielded) = fetched
          /\ downloads = fetched
          /\ inflight = {PageRequest(url)}

\* C13 witness: a cycle of one page, whose Previous Day anchor leads back to
\* it: the same pair has been yielded MaxPages times and the page is being
\* requested once more.
C13_Witness ==
    /\ pc = "get_html_wait"
    /\ fetched = MaxPages
    /\ Len(yielded) = MaxPages
    /\ \A i \in 1..Len(yielded) : yielded[i] = yielded[1]
    /\ url = Format(BASE_URL, Href(0))
    /\ html.anchors = <<PrevAnchor>>

\* The pair the page soup shows: its Timestamp and its image URL.
PairOf(soup) == <<get_datetime(soup).val, get_image(soup).val>>

\* C14: the pairs are yielded one per page, in the order of the fetches:
\* the k-th pair is appended while the k-th fetched page is the current one
\* and is the Timestamp and image URL of that page; a page whose fetch or
\* validation failed has no pair; the first pair is the start page's.
C14_OnePairPerPage ==
    /\ [](/\ pc \in {"get_html", "get_html_wait"} => Len(yielded) = fetched
          /\ pc \in {"get_datetime", "append", "get_image", "yield"} =>
                Len(yielded) = fetched - 1
          /\ pc \in {"download_image", "download_wait", "get_next_time"} =>
                /\ Len(yielded) = fetched
                /\ html = BeautifulSoup(response.text)
                /\ Current = PairOf(html)
                /\ fetched = 1 => url = START_URL
          /\ pc \in {"done", "aborted"} =>
                Len(yielded) \in {fetched - 1, fetched}
          /\ fetched > 0 /\ get_html(response).exc # NoExc =>
                Len(yielded) = fetched - 1)
    /\ [][yielded' # yielded =>
            /\ yielded' = Append(yielded, PairOf(html))
            /\ html = BeautifulSoup(response.text)
            /\ Len(yielded') = fetched]_vars

\* C14 witness: three pages fetched, three pairs yielded, each differing
\* from the one before it.
C14_Witness ==
    /\ pc = "get_next_time"
    /\ fetched = 3
    /\ Len(yielded) = 3
    /\ yielded[1] # yielded[2]
    /\ yielded[2] # yielded[3]

\* C15: seen_dates is empty when the walk starts, and every step either
\* leaves it as it is or appends one Timestamp, the page's own, at its end:
\* nothing is removed or reordered, and the sequence before a step is a
\* prefix of the sequence after it.
C15_SeenOnlyGrows ==
    /\ seen_dates = <<>>
    /\ [][\/ seen_dates' = seen_dates
          \/ /\ Len(seen_dates') = Len(seen_dates) + 1
             /\ SubSeq(seen_dates', 1, Len(seen_dates)) = seen_dates
             /\ seen_dates'[Len(seen_dates')] = dt]_vars

\* C15 witness: seen_dates holds three Timestamps, the third equal to the
\* first and not to the second.
C15_Witness ==
    /\ Len(seen_dates) = 3
    /\ seen_dates[1] # seen_dates[2]
    /\ seen_dates[3] = seen_dates[1]

\* The URL of the i-th time anchor of the page.
TimeUrl(soup, i) == <<BASE_URL, TimeAnchors(soup)[i].attrs["href"]>>

\* C16: the candidate of a time link is the page's Timestamp with the hour
\* and the minute of the label in place of its own, and nothing else
\* changed; the seconds of the label play no part. A time link is followed
\* only if this candidate is not in seen_dates, some time link is followed
\* whenever a candidate is not in seen_dates, and of two links whose labels
\* differ in the seconds alone neither is followed once the candidate of
\* the other is in seen_dates.
C16_CandidateIgnoresSeconds ==
    Decided =>
        /\ \A i \in 1..Len(TimeAnchors(html)) :
              url = TimeUrl(html, i) =>
                 [year |-> dt.year, month |-> dt.month, day |-> dt.day,
                  hour |-> TimeAnchors(html)[i].text[1],
                  minute |-> TimeAnchors(html)[i].text[2],
                  second |-> dt.second] \notin Range(seen_dates)
        /\ ~AllCandidatesSeen(dt, seen_dates, html) =>
              \E i \in 1..Len(TimeAnchors(html)) : url = TimeUrl(html, i)
        /\ \A i, j \in 1..Len(TimeAnchors(html)) :
              /\ TimeAnchors(html)[i].text[1] = TimeAnchors(html)[j].text[1]
              /\ TimeAnchors(html)[i].text[2] = TimeAnchors(html)[j].text[2]
              /\ Candidate(dt, TimeAnchors(html)[i]) \in Range(seen_dates)
              => url # TimeUrl(html, j)

\* C16 witness: the page dated 23:03 has the time links 23:03:00 and
\* 23:03:30; both candidates are its own Timestamp, and the walk has left
\* the page through the Previous Day anchor.
C16_Witness ==
    /\ Decided
    /\ Len(TimeAnchors(html)) = 2
    /\ TimeAnchors(html)[1].text = <<23, 3, 0>>
    /\ TimeAnchors(html)[2].text = <<23, 3, 30>>
    /\ dt.hour = 23 /\ dt.minute = 3
    /\ url = Format(BASE_URL, Href(0))

\* u is BASE_URL joined with the href of a time anchor or of a Previous Day
\* anchor of the page.
LinkedFrom(soup, u) ==
    \E i \in 1..Len(soup.anchors) :
        /\ TIME_RE(soup.anchors[i].text) \/ soup.anchors[i].text = <<"Previous Day">>
        /\ "href" \in DOMAIN soup.anchors[i].attrs
        /\ u = <<BASE_URL, soup.anchors[i].attrs["href"]>>

\* C17: the first page requested is START_URL; every later page request
\* is for BASE_URL joined with the href of a time anchor or Previous Day
\* anchor of the page fetched last before it, which is the page walk holds.
C17_LocalNavigation ==
    /\ fetched = 0 => url = START_URL
    /\ \A r \in inflight : r.kind = "page" => r.url = url
    /\ fetched > 0 /\ pc \in {"get_html", "get_html_wait"} =>
          /\ html = BeautifulSoup(response.text)
          /\ LinkedFrom(html, url)

\* C17 witness: the third page is requested through the second time anchor
\* of the second page.
C17_Witness ==
    /\ PageRequest(url) \in inflight
    /\ fetched = 2
    /\ Len(TimeAnchors(html)) = 2
    /\ url = Format(BASE_URL, Href(2))

\* C18: get_html tests the status before the marker. A response with a
\* failure status ends the run with the transport error, uncaught, also
\* when its body holds the marker; the invalid-page error is raised (and
\* caught by walk) only for a response with a success status whose body
\* holds the marker.
C18_StatusBeforeMarker ==
    /\ fetched > 0 /\ response.status >= 400 =>
          /\ pc = "aborted"
          /\ exc = HTTPError
          /\ caught = NoExc
          /\ get_html(response) = Raise(HTTPError)
    /\ caught = InvalidPage =>
          /\ response.status < 400
          /\ ERROR_MSG \in response.text.phrases
          /\ pc = "done"
          /\ exc = NoExc

\* C18 witness: the second page request was answered with a failure status
\* and a body holding the marker.
C18_Witness ==
    /\ fetched = 2
    /\ response.status >= 400
    /\ ERROR_MSG \in response.text.phrases
    /\ pc = "aborted"
    /\ exc = HTTPError

\* C19: when the image request is answered with a failure status,
\* download_image raises before it opens the file: no file is created and
\* none is changed, an earlier file of the same name included; the error
\* is not caught by walk, it leaves main, and from the abort on no page is
\* fetched and no file written.
C19_FailedDownload ==
    /\ [][(pc = "download_wait" /\ pc' # pc /\ image_response'.status >= 400)
            => /\ files' = files
               /\ pc' = "aborted"
               /\ exc' = HTTPError
               /\ caught' = NoExc
               /\ fetched' = fetched
               /\ downloads' = downloads
               /\ inflight' = {}]_vars
    /\ [](image_response # <<>> /\ image_response.status >= 400 =>
             pc = "aborted" /\ exc = HTTPError /\ caught = NoExc)
    /\ [][pc = "aborted" => UNCHANGED vars]_vars

\* C19 witness: the download of the third pair failed; its Timestamp is
\* that of an earlier pair, whose file is there with its bytes.
C19_Witness ==
    /\ pc = "aborted"
    /\ image_response # <<>>
    /\ image_response.status >= 400
    /\ Len(yielded) = 3
    /\ downloads = 2
    /\ JpgOf(Current[1]) \in DOMAIN files
    /\ files[JpgOf(Current[1])] # <<>>

====
